---------------------------- MODULE Spec2Model ----------------------------
(***************************************************************************)
(* A model of the strategic scenario simulator                             *)
(* (src/strategic_scenario_simulator.py): the dependency resolver          *)
(* _topological_sort, the Monte Carlo and deterministic path samplers, the *)
(* effect cascader, the outcome classifier and the aggregator.             *)
(*                                                                         *)
(* Python floats are modelled as exact rationals <<n, d>> in lowest terms  *)
(* with d > 0; timedelta values are whole hours.  An action's dependency   *)
(* list is only ever read through "dep in names" tests, so it is a set of  *)
(* names.  A side-effect callable is a record saying what a call of it     *)
(* does: raise, return None, or return a SecondOrderEffect.                *)
(*                                                                         *)
(* The module also holds execute_plan_workflow of src/integrated_example.py *)
(* with validate_plan of src/constraint_reasoning_agent.py: the workflow   *)
(* validates a plan, and only then calls simulate_scenario, the tool       *)
(* health report and request_approval.                                     *)
(***************************************************************************)
EXTENDS Integers, Sequences, FiniteSets, TLC

VARIABLES
    actions,              \* simulate_scenario's argument: the caller's list of Action
    monte_carlo,          \* simulate_scenario's argument
    num_simulations,      \* simulate_scenario's argument
    risk_tolerance,       \* self.risk_tolerance
    pc,                   \* position inside simulate_scenario
    i,                    \* the loop variable of "for i in range(num_simulations)"
    sorted_actions,       \* local of the sampler / of _explore_all_paths
    k,                    \* position of "for action in sorted_actions" (1-based)
    executed_actions,     \* local of _run_monte_carlo_simulation
    total_cost,           \* local of _run_monte_carlo_simulation
    total_duration,       \* local of _run_monte_carlo_simulation
    second_order_effects, \* local of _run_monte_carlo_simulation
    paths,                \* local of simulate_scenario
    result,               \* the ScenarioResult returned (None before the return)
    simulation_history,   \* self.simulation_history
    wpc,                  \* position inside execute_plan_workflow
    request,              \* execute_plan_workflow's arguments other than actions
    plan,                 \* local of execute_plan_workflow: the Plan
    is_valid,             \* local of execute_plan_workflow
    violations,           \* local of execute_plan_workflow
    violation_history,    \* self.constraint_agent.violation_history
    invoked,              \* the calls made to the four agents so far, in order
    decision,             \* local of execute_plan_workflow: the Decision
    returned,             \* what execute_plan_workflow returned (None before)
    constraints,          \* ConstraintReasoningAgent.constraints
    decisions,            \* HumanInLoopAgent.decisions: decision id -> Decision
    approval_history,     \* HumanInLoopAgent.approval_history
    call_outcome          \* how the latest call of the approval agent ended

vars == <<actions, monte_carlo, num_simulations, risk_tolerance, pc, i,
          sorted_actions, k, executed_actions, total_cost, total_duration,
          second_order_effects, paths, result, simulation_history,
          wpc, request, plan, is_valid, violations, violation_history,
          invoked, decision, returned, constraints, decisions, approval_history,
          call_outcome>>

None == "None"

-----------------------------------------------------------------------------
(* Exact rationals standing for the floats of the program.                 *)

Abs(x) == IF x < 0 THEN -x ELSE x

RECURSIVE GCD(_, _)
GCD(x, y) == IF y = 0 THEN x ELSE GCD(y, x % y)

Rat(n, d) ==
    LET s == IF d < 0 THEN -1 ELSE 1
        g == GCD(Abs(n), Abs(d))
    IN  <<(s * n) \div g, (s * d) \div g>>

Zero == Rat(0, 1)
One == Rat(1, 1)
RatOfInt(n) == Rat(n, 1)
RatNeg(x) == <<-x[1], x[2]>>
\* Sums and products cancel common factors first, to keep the integers small.
RatAdd(x, y) ==
    LET g == GCD(x[2], y[2])
    IN  Rat(x[1] * (y[2] \div g) + y[1] * (x[2] \div g), (x[2] \div g) * y[2])
RatSub(x, y) == RatAdd(x, RatNeg(y))
RatMul(x, y) ==
    LET g1 == GCD(Abs(x[1]), y[2])
        g2 == GCD(Abs(y[1]), x[2])
    IN  Rat((x[1] \div g1) * (y[1] \div g2), (x[2] \div g2) * (y[2] \div g1))
RatLT(x, y) == RatSub(x, y)[1] < 0
RatLE(x, y) == RatSub(x, y)[1] <= 0
RatAbs(x) == <<Abs(x[1]), x[2]>>
RatMin(x, y) == IF RatLT(x, y) THEN x ELSE y
InUnit(x) == RatLE(Zero, x) /\ RatLE(x, One)

RECURSIVE RatPow(_, _)
RatPow(x, n) == IF n = 0 THEN One ELSE RatMul(x, RatPow(x, n - 1))

-----------------------------------------------------------------------------
(* Lists.                                                                  *)

SeqToSet(s) == {s[j] : j \in 1..Len(s)}

\* [a.name for a in lst]
NamesOf(lst) == {lst[j].name : j \in 1..Len(lst)}

\* list.remove(x): drops the first element equal to x
ListRemove(lst, x) ==
    IF \E j \in 1..Len(lst) : lst[j] = x
    THEN LET p == CHOOSE j \in 1..Len(lst) :
                     lst[j] = x /\ \A h \in 1..(j - 1) : lst[h] # x
         IN  SubSeq(lst, 1, p - 1) \o SubSeq(lst, p + 1, Len(lst))
    ELSE lst

-----------------------------------------------------------------------------
(* _topological_sort                                                       *)

\* The readiness test as it would be with any(...) in place of all(...)
IsReadyAny(a, sorted) ==
    a.dependencies = {} \/ a.dependencies \cap NamesOf(sorted) # {}

\* all(dep in [s.name for s in sorted_actions] for dep in a.dependencies)
IsReady(a, sorted) == a.dependencies \subseteq NamesOf(sorted)

\* "for action in ready: remaining.remove(action)".  After "ready = remaining"
\* the two names are one list object, and the list iterator reads position p
\* of the list as it is after the removals made so far.
RECURSIVE RemoveLoop(_, _, _, _)
RemoveLoop(ready, remaining, p, aliased) ==
    LET it == IF aliased THEN remaining ELSE ready
    IN  IF p > Len(it)
        THEN remaining
        ELSE RemoveLoop(ready, ListRemove(remaining, it[p]), p + 1, aliased)

\* The while loop; "degraded" records that the "if not ready" branch was taken.
RECURSIVE TopoLoop(_, _, _)
TopoLoop(sorted, remaining, degraded) ==
    IF remaining = <<>>
    THEN [sorted |-> sorted, degraded |-> degraded]
    ELSE LET found == SelectSeq(remaining, LAMBDA a : IsReady(a, sorted))
             none == found = <<>>
             ready == IF none THEN remaining ELSE found
         IN  TopoLoop(sorted \o ready,
                      RemoveLoop(ready, remaining, 1, none),
                      degraded \/ none)

topological_sort(acts) == TopoLoop(<<>>, acts, FALSE).sorted

\* Whether _topological_sort(acts) reaches lines 282-284
NoneReadyReached(acts) == TopoLoop(<<>>, acts, FALSE).degraded


-----------------------------------------------------------------------------
(* _simulate_second_order_effects                                          *)

HighCostThreshold == 10000

\* The effect a side-effect callable returns, when it returns one
GeneratedEffect(fn, action) ==
    [source_action |-> action.name,
     effect_description |-> "custom",
     probability |-> fn.probability,
     impact_magnitude |-> fn.impact_magnitude,
     affected_actions |-> <<>>]

\* The loop as it would be with the try around the whole loop: the first
\* callable that raises ends it
RECURSIVE CustomEffectsAbort(_, _)
CustomEffectsAbort(fns, action) ==
    IF fns = <<>> \/ Head(fns).kind = "raise"
    THEN <<>>
    ELSE (IF Head(fns).kind = "effect"
          THEN <<GeneratedEffect(Head(fns), action)>>
          ELSE <<>>) \o CustomEffectsAbort(Tail(fns), action)

\* The loop over action.side_effects: a callable that raises is skipped by
\* "except Exception: pass", one that returns None by "if effect".
RECURSIVE CustomEffects(_, _)
CustomEffects(fns, action) ==
    IF fns = <<>>
    THEN <<>>
    ELSE (IF Head(fns).kind = "effect"
          THEN <<GeneratedEffect(Head(fns), action)>>
          ELSE <<>>) \o CustomEffects(Tail(fns), action)

\* [a.name for a in all_actions if a not in executed_actions]
NotExecutedNames(all_actions, executed) ==
    LET rest == SelectSeq(all_actions, LAMBDA a : a \notin SeqToSet(executed))
    IN  [j \in 1..Len(rest) |-> rest[j].name]

BudgetPressure(action, executed, all_actions) ==
    [source_action |-> action.name,
     effect_description |-> "High cost reduces available budget",
     probability |-> Rat(8, 10),
     impact_magnitude |-> Rat(-3, 10),
     affected_actions |-> NotExecutedNames(all_actions, executed)]

\* The rule as it would be if it were skipped when no action is left to affect
HighCostEffectsIfPending(action, executed, all_actions) ==
    IF action.cost > HighCostThreshold /\ NotExecutedNames(all_actions, executed) # <<>>
    THEN <<BudgetPressure(action, executed, all_actions)>>
    ELSE <<>>

HighCostEffects(action, executed, all_actions) ==
    IF action.cost > HighCostThreshold
    THEN <<BudgetPressure(action, executed, all_actions)>>
    ELSE <<>>

simulate_second_order_effects(action, executed, all_actions) ==
    CustomEffects(action.side_effects, action)
        \o HighCostEffects(action, executed, all_actions)

-----------------------------------------------------------------------------
(* _determine_outcome, _calculate_path_probability, _calculate_risk_score  *)

Max(x, y) == IF x >= y THEN x ELSE y

\* The classifier as it would be with ">" in place of ">="
determine_outcome_strict(executed, all_actions) ==
    LET completion_rate == Rat(Len(executed), Max(Len(all_actions), 1))
    IN  IF RatLT(Rat(9, 10), completion_rate) THEN "SUCCESS"
        ELSE IF RatLT(Rat(6, 10), completion_rate) THEN "PARTIAL_SUCCESS"
        ELSE IF RatLT(Rat(3, 10), completion_rate) THEN "FAILURE"
        ELSE "CATASTROPHIC"

determine_outcome(executed, all_actions) ==
    LET completion_rate == Rat(Len(executed), Max(Len(all_actions), 1))
    IN  IF RatLE(Rat(9, 10), completion_rate) THEN "SUCCESS"
        ELSE IF RatLE(Rat(6, 10), completion_rate) THEN "PARTIAL_SUCCESS"
        ELSE IF RatLE(Rat(3, 10), completion_rate) THEN "FAILURE"
        ELSE "CATASTROPHIC"

RECURSIVE ProbProduct(_)
ProbProduct(acts) ==
    IF acts = <<>>
    THEN One
    ELSE RatMul(ProbProduct(SubSeq(acts, 1, Len(acts) - 1)),
                acts[Len(acts)].success_probability)

calculate_path_probability(acts) ==
    IF acts = <<>> THEN Zero ELSE ProbProduct(acts)

\* The loop as it would be without "if effect.impact_magnitude < 0"
RECURSIVE RiskSumAllImpacts(_)
RiskSumAllImpacts(effects) ==
    IF effects = <<>>
    THEN Zero
    ELSE RatAdd(RiskSumAllImpacts(SubSeq(effects, 1, Len(effects) - 1)),
                RatMul(RatAbs(effects[Len(effects)].impact_magnitude),
                       effects[Len(effects)].probability))

\* The loop of _calculate_risk_score: only negative impacts add to the risk
RECURSIVE RiskSum(_)
RiskSum(effects) ==
    IF effects = <<>>
    THEN Zero
    ELSE LET e == effects[Len(effects)]
             before == RiskSum(SubSeq(effects, 1, Len(effects) - 1))
         IN  IF RatLT(e.impact_magnitude, Zero)
             THEN RatAdd(before, RatMul(RatAbs(e.impact_magnitude), e.probability))
             ELSE before

CostScale == 100000

calculate_risk_score(effects, cost) ==
    IF effects = <<>>
    THEN Zero
    ELSE RatMin(RatMul(RiskSum(effects), RatAdd(One, Rat(cost, CostScale))), One)

-----------------------------------------------------------------------------
(* Sums over a list of actions                                             *)

RECURSIVE SumCost(_)
SumCost(acts) ==
    IF acts = <<>> THEN 0 ELSE SumCost(SubSeq(acts, 1, Len(acts) - 1)) + acts[Len(acts)].cost

RECURSIVE SumDuration(_)
SumDuration(acts) ==
    IF acts = <<>> THEN 0
    ELSE SumDuration(SubSeq(acts, 1, Len(acts) - 1)) + acts[Len(acts)].duration

-----------------------------------------------------------------------------
(* _run_monte_carlo_simulation: the parts of one loop iteration            *)

\* The sampler as it would be without the dependency test
DependenciesMetAlways(action, executed) == TRUE

\* all(dep in [a.name for a in executed_actions] for dep in action.dependencies)
DependenciesMet(action, executed) == action.dependencies \subseteq NamesOf(executed)

\* random.random() is in [0, 1): "random.random() < p" can come out True
\* exactly when p > 0 and False exactly when p < 1.
CanSucceed(p) == RatLT(Zero, p)
\* The test as it would be if the draw could be 1.0
CanFailClosed(p) == RatLE(p, One)
CanFail(p) == RatLT(p, One)

MonteCarloPath(simulation_id, executed, cost, duration, effects, all_actions) ==
    [path_id |-> <<"mc", simulation_id>>,      \* f"mc_{simulation_id}"
     actions_taken |-> executed,
     outcome_type |-> determine_outcome(executed, all_actions),
     total_cost |-> cost,
     total_duration |-> duration,
     probability |-> calculate_path_probability(executed),
     second_order_effects |-> effects,
     risk_score |-> calculate_risk_score(effects, cost)]

-----------------------------------------------------------------------------
(* _explore_all_paths and _create_deterministic_path                       *)

ScenarioLabels == <<"optimistic", "realistic", "pessimistic">>
\* The rates as they would be with an optimistic scenario that can fail
ScenarioRatesHedged == <<Rat(95, 100), Rat(8, 10), Rat(5, 10)>>
ScenarioRates == <<Rat(10, 10), Rat(8, 10), Rat(5, 10)>>

\* The sub-list as it would be if executed actions were put at the front
RECURSIVE PickReversed(_, _)
PickReversed(acts, mask) ==
    IF acts = <<>>
    THEN <<>>
    ELSE (IF Len(acts) \in mask THEN <<acts[Len(acts)]>> ELSE <<>>)
            \o PickReversed(SubSeq(acts, 1, Len(acts) - 1), mask)

\* The sub-list of acts at the positions in mask, in order
RECURSIVE Pick(_, _)
Pick(acts, mask) ==
    IF acts = <<>>
    THEN <<>>
    ELSE Pick(SubSeq(acts, 1, Len(acts) - 1), mask)
            \o (IF Len(acts) \in mask THEN <<acts[Len(acts)]>> ELSE <<>>)

\* The sets of loop positions at which "random.random() < success_rate" can
\* come out True in one run of the loop
DrawMasks(acts, success_rate) ==
    {m \in SUBSET (1..Len(acts)) :
        /\ (m # {} => CanSucceed(success_rate))
        /\ (m # 1..Len(acts) => CanFail(success_rate))}

\* The path as it would be with the risk taken from the path's own probability
create_deterministic_path_own_risk(path_name, acts, success_rate, mask) ==
    LET executed == Pick(acts, mask)
    IN  [path_id |-> <<path_name>>,
         actions_taken |-> executed,
         outcome_type |-> determine_outcome(executed, acts),
         total_cost |-> SumCost(executed),
         total_duration |-> SumDuration(executed),
         probability |-> RatPow(success_rate, Len(executed)),
         second_order_effects |-> <<>>,
         risk_score |-> RatSub(One, RatPow(success_rate, Len(executed)))]

create_deterministic_path(path_name, acts, success_rate, mask) ==
    LET executed == Pick(acts, mask)
    IN  [path_id |-> <<path_name>>,
         actions_taken |-> executed,
         outcome_type |-> determine_outcome(executed, acts),
         total_cost |-> SumCost(executed),
         total_duration |-> SumDuration(executed),
         probability |-> RatPow(success_rate, Len(executed)),
         second_order_effects |-> <<>>,
         risk_score |-> RatSub(One, success_rate)]

-----------------------------------------------------------------------------
(* _calculate_path_value, _select_recommended_path,                        *)
(* _analyze_simulation_results                                             *)

OutcomeValue(outcome) ==
    CASE outcome = "SUCCESS" -> 100000
      [] outcome = "PARTIAL_SUCCESS" -> 50000
      [] outcome = "FAILURE" -> -10000
      [] outcome = "CATASTROPHIC" -> -50000
      [] OTHER -> 0

\* The value as it would be without "- path.total_cost"
calculate_path_benefit(path) == OutcomeValue(path.outcome_type)

calculate_path_value(path) == OutcomeValue(path.outcome_type) - path.total_cost

\* The factor as it would be with the tolerance in place of 1 - tolerance
RiskAdjustmentByTolerance(path, tolerance) ==
    RatSub(One, RatMul(path.risk_score, tolerance))

RiskAdjustment(path, tolerance) ==
    RatSub(One, RatMul(path.risk_score, RatSub(One, tolerance)))

PathScore(path, tolerance) ==
    RatMul(RatMul(RatOfInt(calculate_path_value(path)), path.probability),
           RiskAdjustment(path, tolerance))

\* scored_paths: the pairs (score, path); a path is a reference to an element
\* of paths, modelled as its position
ScoredPaths(ps, tolerance) == [j \in 1..Len(ps) |-> <<PathScore(ps[j], tolerance), j>>]

\* The list sorted with one more pair put in: list.sort(reverse=True) is
\* stable, so the pair goes behind every pair whose key is not smaller
InsertDescending(sorted, pair) ==
    LET ahead == {p \in 0..Len(sorted) :
                     \A q \in 1..p : RatLE(pair[1], sorted[q][1])}
        at == CHOOSE p \in ahead : \A q \in ahead : q <= p
    IN  SubSeq(sorted, 1, at) \o <<pair>> \o SubSeq(sorted, at + 1, Len(sorted))

\* scored_paths.sort(key=lambda x: x[0], reverse=True)
RECURSIVE SortDescending(_)
SortDescending(scored) ==
    IF scored = <<>>
    THEN <<>>
    ELSE InsertDescending(SortDescending(SubSeq(scored, 1, Len(scored) - 1)),
                          scored[Len(scored)])

\* The selection as it would be with max(...) scanning with ">=": among equal
\* scores the later path wins
select_recommended_last(ps, tolerance) ==
    IF ps = <<>>
    THEN None
    ELSE CHOOSE j \in 1..Len(ps) :
            /\ \A h \in 1..Len(ps) :
                  RatLE(PathScore(ps[h], tolerance), PathScore(ps[j], tolerance))
            /\ \A h \in (j + 1)..Len(ps) :
                  RatLT(PathScore(ps[h], tolerance), PathScore(ps[j], tolerance))

\* "return scored_paths[0][1] if scored_paths else None"
select_recommended_path(ps, tolerance) ==
    IF ps = <<>>
    THEN None
    ELSE SortDescending(ScoredPaths(ps, tolerance))[1][2]

RECURSIVE SumRat(_)
SumRat(xs) ==
    IF xs = <<>> THEN Zero
    ELSE RatAdd(SumRat(SubSeq(xs, 1, Len(xs) - 1)), xs[Len(xs)])

\* The filter as it would be if only full successes were counted
IsFullSuccessPath(path) == path.outcome_type = "SUCCESS"

\* p.outcome_type in [OutcomeType.SUCCESS, OutcomeType.PARTIAL_SUCCESS]
IsSuccessPath(path) == path.outcome_type \in {"SUCCESS", "PARTIAL_SUCCESS"}

\* The result as it would be if the rate of an empty list were "all succeeded"
EmptyResultAllSucceeded(scenario_name) ==
    [scenario_name |-> scenario_name,
     paths |-> <<>>,
     expected_value |-> Zero,
     risk_adjusted_value |-> Zero,
     success_rate |-> One,
     average_cost |-> Zero,
     average_duration |-> Zero,
     recommended_path |-> None]

\* "if not paths: return ScenarioResult(...)": recommended_path keeps its
\* default, None
EmptyResult(scenario_name) ==
    [scenario_name |-> scenario_name,
     paths |-> <<>>,
     expected_value |-> Zero,
     risk_adjusted_value |-> Zero,
     success_rate |-> Zero,
     average_cost |-> Zero,
     average_duration |-> Zero,
     recommended_path |-> None]

analyze_simulation_results(scenario_name, ps, tolerance) ==
    IF ps = <<>>
    THEN EmptyResult(scenario_name)
    ELSE [scenario_name |-> scenario_name,
          paths |-> ps,
          expected_value |->
              SumRat([j \in 1..Len(ps) |->
                        RatMul(RatOfInt(calculate_path_value(ps[j])),
                               ps[j].probability)]),
          risk_adjusted_value |-> SumRat([j \in 1..Len(ps) |-> PathScore(ps[j], tolerance)]),
          success_rate |-> Rat(Len(SelectSeq(ps, IsSuccessPath)), Len(ps)),
          average_cost |->
              RatMul(SumRat([j \in 1..Len(ps) |-> RatOfInt(ps[j].total_cost)]),
                     Rat(1, Len(ps))),
          average_duration |->
              RatMul(SumRat([j \in 1..Len(ps) |-> RatOfInt(ps[j].total_duration)]),
                     Rat(1, Len(ps))),
          recommended_path |-> select_recommended_path(ps, tolerance)]

-----------------------------------------------------------------------------
(* The inputs: plans of uniquely named actions                             *)

MissingName == "z"
SimNames == <<"a", "b">>
ResolverNames == <<"a", "b", "c">>
DepNames(names) == SeqToSet(names) \cup {MissingName}

\* What a call of a side-effect callable does
Raises == [kind |-> "raise", probability |-> Zero, impact_magnitude |-> Zero]
ReturnsNone == [kind |-> "none", probability |-> Zero, impact_magnitude |-> Zero]
Harmful == [kind |-> "effect", probability |-> One, impact_magnitude |-> Rat(-1, 2)]
Helpful == [kind |-> "effect", probability |-> Rat(1, 2), impact_magnitude |-> Rat(1, 2)]

Cheap == [cost |-> 500, duration |-> 1, success_probability |-> One,
          side_effects |-> <<>>]
Costly == [cost |-> 20000, duration |-> 2, success_probability |-> Rat(1, 2),
           side_effects |-> <<Raises, Harmful>>]
Refund == [cost |-> -200000, duration |-> 1, success_probability |-> Rat(1, 2),
           side_effects |-> <<Harmful>>]
AtThreshold == [cost |-> 10000, duration |-> 3, success_probability |-> One,
                side_effects |-> <<ReturnsNone, Helpful>>]
Profiles == {Cheap, Costly, Refund, AtThreshold}

MkAction(name, deps, profile) ==
    [name |-> name,
     description |-> "",
     duration |-> profile.duration,
     cost |-> profile.cost,
     success_probability |-> profile.success_probability,
     dependencies |-> deps,
     side_effects |-> profile.side_effects]

\* The plans of at most Len(names) actions, the j-th named names[j], with
\* dependency sets from deps and attributes from profiles
PlansOver(names, deps, profiles) ==
    UNION {
        {[j \in 1..n |-> MkAction(names[j], f[j][1], f[j][2])] :
            f \in [1..n -> deps \X profiles]}
        : n \in 0..Len(names)}

MaxSamples == 2

\* simulate_scenario is run on plans whose actions name at most one dependency:
\* another action, themselves, or an action that is not in the plan
SimPlans ==
    PlansOver(SimNames, {{}} \cup {{d} : d \in DepNames(SimNames)}, Profiles)
\* _topological_sort is run on every dependency graph over three actions
ResolverPlans == PlansOver(ResolverNames, SUBSET DepNames(ResolverNames), {Cheap})
RiskTolerances == {Rat(1, 2)}

-----------------------------------------------------------------------------
(* simulate_scenario                                                       *)

\* simulate_scenario or _topological_sort called directly: no workflow runs
NoWorkflow ==
    /\ wpc = "idle"
    /\ request = None
    /\ plan = None
    /\ is_valid = None
    /\ violations = <<>>
    /\ violation_history = <<>>
    /\ invoked = <<>>
    /\ decision = None
    /\ returned = None
    /\ constraints = <<>>
    /\ decisions = <<>>
    /\ approval_history = <<>>
    /\ call_outcome = None

Init ==
    /\ actions \in SimPlans
    /\ monte_carlo \in BOOLEAN
    /\ num_simulations \in 0..MaxSamples
    /\ risk_tolerance \in RiskTolerances
    /\ pc = "start"
    /\ i = 0
    /\ sorted_actions = <<>>
    /\ k = 0
    /\ executed_actions = <<>>
    /\ total_cost = 0
    /\ total_duration = 0
    /\ second_order_effects = <<>>
    /\ paths = <<>>
    /\ result = None
    /\ simulation_history = <<>>
    /\ NoWorkflow

args == <<actions, monte_carlo, num_simulations, risk_tolerance>>
\* The state of execute_plan_workflow, which simulate_scenario never touches
workflow == <<wpc, request, plan, is_valid, violations, violation_history,
              invoked, decision, returned, constraints, decisions, approval_history,
              call_outcome>>
locals == <<sorted_actions, k, executed_actions, total_cost, total_duration,
            second_order_effects>>

\* The caller's list as it would be if the resolver removed from it directly
CallerListDrained(acts) == <<>>

\* The caller's list after _topological_sort: "remaining = actions.copy()", so
\* the removals of the loop act on the copy
CallerListAfterSort(acts) == acts

\* "paths = []", then the branch on monte_carlo
Call ==
    /\ pc = "start"
    /\ paths' = <<>>
    /\ pc' = IF monte_carlo THEN "mc_for" ELSE "explore"
    /\ UNCHANGED <<args, workflow, i, locals, result, simulation_history>>

\* One more round of "for i in range(num_simulations)": the sampler starts
MCBegin ==
    /\ pc = "mc_for"
    /\ i < num_simulations
    /\ sorted_actions' = topological_sort(actions)
    /\ k' = 1
    /\ executed_actions' = <<>>
    /\ total_cost' = 0
    /\ total_duration' = 0
    /\ second_order_effects' = <<>>
    /\ pc' = "mc_loop"
    /\ actions' = CallerListAfterSort(actions)
    /\ UNCHANGED <<monte_carlo, num_simulations, risk_tolerance, workflow, i, paths,
                   result, simulation_history>>

\* "if not dependencies_met: continue"
MCSkip ==
    /\ pc = "mc_loop"
    /\ k <= Len(sorted_actions)
    /\ ~DependenciesMet(sorted_actions[k], executed_actions)
    /\ k' = k + 1
    /\ UNCHANGED <<args, workflow, pc, i, sorted_actions, executed_actions, total_cost,
                   total_duration, second_order_effects, paths, result,
                   simulation_history>>

\* The draw comes out False
MCFail ==
    /\ pc = "mc_loop"
    /\ k <= Len(sorted_actions)
    /\ DependenciesMet(sorted_actions[k], executed_actions)
    /\ CanFail(sorted_actions[k].success_probability)
    /\ k' = k + 1
    /\ UNCHANGED <<args, workflow, pc, i, sorted_actions, executed_actions, total_cost,
                   total_duration, second_order_effects, paths, result,
                   simulation_history>>

\* The draw comes out True
MCSucceed ==
    /\ pc = "mc_loop"
    /\ k <= Len(sorted_actions)
    /\ LET action == sorted_actions[k]
           executed == Append(executed_actions, action)
       IN  /\ DependenciesMet(action, executed_actions)
           /\ CanSucceed(action.success_probability)
           /\ executed_actions' = executed
           /\ total_cost' = total_cost + action.cost
           /\ total_duration' = total_duration + action.duration
           /\ second_order_effects' =
                 second_order_effects
                    \o simulate_second_order_effects(action, executed, sorted_actions)
    /\ k' = k + 1
    /\ UNCHANGED <<args, workflow, pc, i, sorted_actions, paths, result, simulation_history>>

\* The loop is over: the path is built, returned and appended to paths
MCEnd ==
    /\ pc = "mc_loop"
    /\ k > Len(sorted_actions)
    /\ paths' = Append(paths, MonteCarloPath(i, executed_actions, total_cost,
                                             total_duration, second_order_effects,
                                             actions))
    /\ i' = i + 1
    /\ pc' = "mc_for"
    /\ sorted_actions' = <<>>
    /\ k' = 0
    /\ executed_actions' = <<>>
    /\ total_cost' = 0
    /\ total_duration' = 0
    /\ second_order_effects' = <<>>
    /\ UNCHANGED <<args, workflow, result, simulation_history>>

\* _explore_all_paths: the actions are sorted once
Explore ==
    /\ pc = "explore"
    /\ sorted_actions' = topological_sort(actions)
    /\ pc' = "det"
    /\ actions' = CallerListAfterSort(actions)
    /\ UNCHANGED <<monte_carlo, num_simulations, risk_tolerance, workflow, i, k,
                   executed_actions, total_cost, total_duration,
                   second_order_effects, paths, result, simulation_history>>

\* The next of the three calls of _create_deterministic_path
DetPath ==
    /\ pc = "det"
    /\ Len(paths) < Len(ScenarioLabels)
    /\ LET n == Len(paths) + 1
       IN  \E mask \in DrawMasks(sorted_actions, ScenarioRates[n]) :
              paths' = Append(paths,
                              create_deterministic_path(ScenarioLabels[n],
                                                        sorted_actions,
                                                        ScenarioRates[n], mask))
    /\ UNCHANGED <<args, workflow, pc, i, locals, result, simulation_history>>

\* The condition as it would be if the aggregator did not wait for the loop
PathsCompleteEarly ==
    \/ pc = "mc_for"
    \/ pc = "det" /\ Len(paths) = Len(ScenarioLabels)

PathsComplete ==
    \/ pc = "mc_for" /\ i >= num_simulations
    \/ pc = "det" /\ Len(paths) = Len(ScenarioLabels)

\* The history as it would be if a call kept only its own result
HistoryReplaced(history, r) == <<r>>

\* "self.simulation_history.append(result)"
HistoryAfter(history, r) == Append(history, r)

\* _analyze_simulation_results, the append to the history and the return
Analyze ==
    /\ PathsComplete
    /\ result' = analyze_simulation_results("x", paths, risk_tolerance)
    /\ simulation_history' = HistoryAfter(simulation_history, result')
    /\ pc' = "done"
    /\ sorted_actions' = <<>>
    /\ UNCHANGED <<args, workflow, i, k, executed_actions, total_cost, total_duration,
                   second_order_effects, paths>>

Next ==
    \/ Call
    \/ MCBegin
    \/ MCSkip
    \/ MCFail
    \/ MCSucceed
    \/ MCEnd
    \/ Explore
    \/ DetPath
    \/ Analyze

Spec == Init /\ [][Next]_vars

-----------------------------------------------------------------------------
(* simulate_scenario called again and again on the same simulator          *)

MaxCalls == 2

HistoryPlans == PlansOver(<<"a">>, {{}, {MissingName}}, {Cheap, Costly})

InitHistory ==
    /\ actions \in HistoryPlans
    /\ monte_carlo \in BOOLEAN
    /\ num_simulations \in 0..1
    /\ risk_tolerance \in RiskTolerances
    /\ pc = "start"
    /\ i = 0
    /\ sorted_actions = <<>>
    /\ k = 0
    /\ executed_actions = <<>>
    /\ total_cost = 0
    /\ total_duration = 0
    /\ second_order_effects = <<>>
    /\ paths = <<>>
    /\ result = None
    /\ simulation_history = <<>>
    /\ NoWorkflow

\* The caller calls simulate_scenario once more, with arguments of its choice;
\* the locals of the new call are fresh and nothing is returned yet
CallAgain ==
    /\ pc = "done"
    /\ Len(simulation_history) < MaxCalls
    /\ actions' \in HistoryPlans
    /\ monte_carlo' \in BOOLEAN
    /\ num_simulations' \in 0..1
    /\ pc' = "start"
    /\ i' = 0
    /\ k' = 0
    /\ result' = None
    /\ UNCHANGED <<risk_tolerance, workflow, sorted_actions, executed_actions,
                   total_cost, total_duration, second_order_effects, paths,
                   simulation_history>>

NextHistory ==
    \/ Call
    \/ MCBegin
    \/ MCSkip
    \/ MCFail
    \/ MCSucceed
    \/ MCEnd
    \/ Explore
    \/ DetPath
    \/ Analyze
    \/ CallAgain

SpecHistory == InitHistory /\ [][NextHistory]_vars

-----------------------------------------------------------------------------
(* resolve_order on its own: _topological_sort applied to a plan           *)

InitResolve ==
    /\ actions \in ResolverPlans
    /\ monte_carlo = FALSE
    /\ num_simulations = 0
    /\ risk_tolerance \in RiskTolerances
    /\ pc = "resolve"
    /\ i = 0
    /\ sorted_actions = <<>>
    /\ k = 0
    /\ executed_actions = <<>>
    /\ total_cost = 0
    /\ total_duration = 0
    /\ second_order_effects = <<>>
    /\ paths = <<>>
    /\ result = None
    /\ simulation_history = <<>>
    /\ NoWorkflow

ResolveOrder ==
    /\ pc = "resolve"
    /\ sorted_actions' = topological_sort(actions)
    /\ pc' = "resolved"
    /\ actions' = CallerListAfterSort(actions)
    /\ UNCHANGED <<monte_carlo, num_simulations, risk_tolerance, workflow, i, k,
                   executed_actions, total_cost, total_duration,
                   second_order_effects, paths, result, simulation_history>>

NextResolve == ResolveOrder

SpecResolve == InitResolve /\ [][NextResolve]_vars

-----------------------------------------------------------------------------
(* _determine_outcome on its own: the classifier applied to a list of      *)
(* candidate actions and a sub-list of executed ones                       *)

MaxCandidates == 10

\* n uniquely named actions
CandidateList(n) == [j \in 1..n |-> MkAction(ToString(j), {}, Cheap)]

InitOutcome ==
    /\ actions \in {CandidateList(n) : n \in 0..MaxCandidates}
    /\ executed_actions \in {Pick(actions, mask) : mask \in SUBSET (1..Len(actions))}
    /\ monte_carlo = TRUE
    /\ num_simulations = 0
    /\ risk_tolerance \in RiskTolerances
    /\ pc = "classify"
    /\ i = 0
    /\ sorted_actions = <<>>
    /\ k = 0
    /\ total_cost = 0
    /\ total_duration = 0
    /\ second_order_effects = <<>>
    /\ paths = <<>>
    /\ result = None
    /\ simulation_history = <<>>
    /\ NoWorkflow

\* outcome_type = self._determine_outcome(executed_actions, actions)
DetermineOutcome ==
    /\ pc = "classify"
    /\ result' = determine_outcome(executed_actions, actions)
    /\ pc' = "classified"
    /\ UNCHANGED <<args, workflow, i, locals, paths, simulation_history>>

NextOutcome == DetermineOutcome

SpecOutcome == InitOutcome /\ [][NextOutcome]_vars

-----------------------------------------------------------------------------
(* _analyze_simulation_results on its own: the aggregator applied to a     *)
(* list of paths, for a simulator of any risk tolerance                    *)

MaxPaths == 2

\* Paths as the samplers return them, as far as the aggregator reads them:
\* any outcome, a probability, and a risk score inside or under [0, 1]
AggregatePaths ==
    [path_id : {<<"p">>},
     actions_taken : {<<>>},
     outcome_type : {"SUCCESS", "PARTIAL_SUCCESS", "FAILURE", "CATASTROPHIC"},
     total_cost : {500},
     total_duration : {1},
     probability : {Rat(1, 2), One},
     second_order_effects : {<<>>},
     risk_score : {Zero, Rat(1, 2), Rat(-1, 2)}]

AggregateTolerances == {Zero, Rat(1, 2), One}

InitAggregate ==
    /\ paths \in UNION {[1..n -> AggregatePaths] : n \in 0..MaxPaths}
    /\ risk_tolerance \in AggregateTolerances
    /\ actions = <<>>
    /\ monte_carlo = TRUE
    /\ num_simulations = 0
    /\ pc = "aggregate"
    /\ i = 0
    /\ sorted_actions = <<>>
    /\ k = 0
    /\ executed_actions = <<>>
    /\ total_cost = 0
    /\ total_duration = 0
    /\ second_order_effects = <<>>
    /\ result = None
    /\ simulation_history = <<>>
    /\ NoWorkflow

\* result = self._analyze_simulation_results(scenario_name, paths)
Aggregate ==
    /\ pc = "aggregate"
    /\ result' = analyze_simulation_results("x", paths, risk_tolerance)
    /\ pc' = "aggregated"
    /\ UNCHANGED <<args, workflow, i, locals, paths, simulation_history>>

NextAggregate == Aggregate

SpecAggregate == InitAggregate /\ [][NextAggregate]_vars

-----------------------------------------------------------------------------
(* One Monte Carlo sample over plans of three actions, costing 10000 or    *)
(* more, for the high-cost rule of _simulate_second_order_effects          *)

CascadeNames == <<"a", "b", "c">>

CascadePlans ==
    PlansOver(CascadeNames, {{}, {MissingName}, {"a"}}, {Costly, AtThreshold})

InitCascade ==
    /\ actions \in CascadePlans
    /\ monte_carlo = TRUE
    /\ num_simulations = 1
    /\ risk_tolerance \in RiskTolerances
    /\ pc = "start"
    /\ i = 0
    /\ sorted_actions = <<>>
    /\ k = 0
    /\ executed_actions = <<>>
    /\ total_cost = 0
    /\ total_duration = 0
    /\ second_order_effects = <<>>
    /\ paths = <<>>
    /\ result = None
    /\ simulation_history = <<>>
    /\ NoWorkflow

NextCascade ==
    \/ Call
    \/ MCBegin
    \/ MCSkip
    \/ MCFail
    \/ MCSucceed
    \/ MCEnd
    \/ Analyze

SpecCascade == InitCascade /\ [][NextCascade]_vars

-----------------------------------------------------------------------------
(* validate_plan (src/constraint_reasoning_agent.py)                       *)

\* A Python value handed in where a list of strings is expected: a list,
\* read only through set(...), or None
PyList(items) == [type |-> "list", items |-> items]
PyNone == [type |-> "NoneType"]

\* _setup_constraints: the four constraints of the integrated system, in the
\* order they are added; 180 days are 4320 hours
SetupConstraints ==
    <<[type |-> "time", name |-> "max_project_duration", severity |-> "blocking",
       metadata |-> [max_duration |-> 4320]],
      [type |-> "budget", name |-> "department_budget", severity |-> "blocking",
       metadata |-> [max_budget |-> 250000]],
      [type |-> "permissions", name |-> "required_access", severity |-> "blocking",
       metadata |-> [available_permissions |->
                        {"read_data", "write_data", "read_reports", "write_reports",
                         "deploy_staging"}]],
      [type |-> "regulations", name |-> "compliance_check", severity |-> "warning",
       metadata |-> [approved_domains |-> {"finance", "healthcare", "general"}]]>>

\* constraint.validator(plan, constraint.metadata): "ok" for (True, message),
\* "violated" for (False, message), "raise" when the validator raises, as
\* set(None) does
ValidatorVerdict(constraint, p) ==
    CASE constraint.type = "time" ->
            IF p.estimated_duration > constraint.metadata.max_duration
            THEN "violated" ELSE "ok"
      [] constraint.type = "budget" ->
            IF p.estimated_cost > constraint.metadata.max_budget
            THEN "violated" ELSE "ok"
      [] constraint.type = "permissions" ->
            IF p.required_permissions.type # "list" THEN "raise"
            ELSE IF p.required_permissions.items
                        \ constraint.metadata.available_permissions # {}
            THEN "violated" ELSE "ok"
      [] constraint.type = "regulations" ->
            IF p.regulatory_domains.type # "list" THEN "raise"
            ELSE IF p.regulatory_domains.items
                        \ constraint.metadata.approved_domains # {}
            THEN "violated" ELSE "ok"

\* The loop as it would be if the except branch kept the declared severity
RECURSIVE ViolationsOfDeclared(_, _)
ViolationsOfDeclared(cs, p) ==
    IF cs = <<>>
    THEN <<>>
    ELSE LET verdict == ValidatorVerdict(Head(cs), p)
             found ==
                 IF verdict = "ok"
                 THEN <<>>
                 ELSE <<[constraint |-> Head(cs).name,
                         severity |-> Head(cs).severity,
                         raised |-> verdict = "raise"]>>
         IN  found \o ViolationsOfDeclared(Tail(cs), p)

\* The loop of validate_plan: a violation carries the constraint's severity,
\* and BLOCKING when the validator raised
RECURSIVE ViolationsOf(_, _)
ViolationsOf(cs, p) ==
    IF cs = <<>>
    THEN <<>>
    ELSE LET verdict == ValidatorVerdict(Head(cs), p)
             found ==
                 CASE verdict = "violated" ->
                        <<[constraint |-> Head(cs).name,
                           severity |-> Head(cs).severity,
                           raised |-> FALSE]>>
                   [] verdict = "raise" ->
                        <<[constraint |-> Head(cs).name,
                           severity |-> "blocking",
                           raised |-> TRUE]>>
                   [] OTHER -> <<>>
         IN  found \o ViolationsOf(Tail(cs), p)

IsBlocking(v) == v.severity = "blocking"

\* validate_plan as it would be without lines 106-107: is_valid is then what
\* the loop left in it, the verdict of the last validator that returned
validate_plan_last_verdict(cs, p) ==
    LET vs == ViolationsOf(cs, p)
        returned_at == {j \in 1..Len(cs) : ValidatorVerdict(cs[j], p) # "raise"}
        last == CHOOSE j \in returned_at : \A h \in returned_at : h <= j
    IN  [is_valid |-> returned_at = {} \/ ValidatorVerdict(cs[last], p) = "ok",
         violations |-> vs,
         recorded |-> SelectSeq(vs, LAMBDA v : ~v.raised)]

\* validate_plan: (is_valid, violations), and what it appends to
\* self.violation_history (the violations of the except branch are not)
validate_plan(cs, p) ==
    LET vs == ViolationsOf(cs, p)
    IN  [is_valid |-> Len(SelectSeq(vs, IsBlocking)) = 0,
         violations |-> vs,
         recorded |-> SelectSeq(vs, LAMBDA v : ~v.raised)]

-----------------------------------------------------------------------------
(* execute_plan_workflow (src/integrated_example.py)                       *)

\* An action that alone takes longer than the 180 days allowed
LongHaul == [cost |-> 500, duration |-> 4321, success_probability |-> One,
             side_effects |-> <<>>]

WorkflowPlans == PlansOver(<<"a">>, {{}, {MissingName}}, {Cheap, Costly, LongHaul})

WorkflowRequests ==
    [estimated_cost : {130000, 250000, 250001},
     required_permissions : {PyList({"read_data", "deploy_staging"}),
                             PyList({"admin_access"}), PyNone},
     regulatory_domains : {PyList({"finance", "general"}), PyList({"crypto"}), PyNone}]

\* The state of the constraint agent and of the approval agent that
\* execute_plan_workflow leaves as it is
agents == <<constraints, decisions, approval_history, call_outcome>>

\* The state of the simulator apart from the arguments of simulate_scenario
simulator == <<pc, i, locals, paths, result, simulation_history>>

\* The system is constructed and execute_plan_workflow is called; the
\* simulator is made with risk_tolerance=0.6 and will be asked for Monte Carlo
\* samples (500 in the code, MaxSamples here)
InitWorkflow ==
    /\ actions \in WorkflowPlans
    /\ monte_carlo = TRUE
    /\ num_simulations = MaxSamples
    /\ risk_tolerance = Rat(6, 10)
    /\ pc = "idle"
    /\ i = 0
    /\ sorted_actions = <<>>
    /\ k = 0
    /\ executed_actions = <<>>
    /\ total_cost = 0
    /\ total_duration = 0
    /\ second_order_effects = <<>>
    /\ paths = <<>>
    /\ result = None
    /\ simulation_history = <<>>
    /\ wpc = "called"
    /\ request \in WorkflowRequests
    /\ plan = None
    /\ is_valid = None
    /\ violations = <<>>
    /\ violation_history = <<>>
    /\ invoked = <<>>
    /\ decision = None
    /\ returned = None
    /\ constraints = SetupConstraints
    /\ decisions = <<>>
    /\ approval_history = <<>>
    /\ call_outcome = None

\* Step 1: the Plan is built and validate_plan is called on it
WfValidate ==
    /\ wpc = "called"
    /\ LET p == [estimated_duration |-> SumDuration(actions),
                 estimated_cost |-> request.estimated_cost,
                 required_permissions |-> request.required_permissions,
                 regulatory_domains |-> request.regulatory_domains]
           v == validate_plan(constraints, p)
       IN  /\ plan' = p
           /\ is_valid' = v.is_valid
           /\ violations' = v.violations
           /\ violation_history' = violation_history \o v.recorded
    /\ invoked' = Append(invoked, "validate_plan")
    /\ wpc' = "validated"
    /\ UNCHANGED <<args, agents, simulator, request, decision, returned>>

\* "if not is_valid: return False"
WfReject ==
    /\ wpc = "validated"
    /\ ~is_valid
    /\ returned' = FALSE
    /\ wpc' = "returned"
    /\ UNCHANGED <<args, agents, simulator, request, plan, is_valid, violations,
                   violation_history, invoked, decision>>

\* Step 2: simulate_scenario is called
WfSimulate ==
    /\ wpc = "validated"
    /\ is_valid
    /\ pc = "idle"
    /\ pc' = "start"
    /\ invoked' = Append(invoked, "simulate_scenario")
    /\ wpc' = "simulating"
    /\ UNCHANGED <<args, agents, i, locals, paths, result, simulation_history, request, plan,
                   is_valid, violations, violation_history, decision, returned>>

\* Step 3: simulate_scenario has returned; the tool metrics are recorded and
\* the health report and the recommendations are asked for
WfTools ==
    /\ wpc = "simulating"
    /\ pc = "done"
    /\ invoked' = Append(invoked, "get_system_health_report")
    /\ wpc' = "tools_checked"
    /\ UNCHANGED <<args, agents, simulator, request, plan, is_valid, violations,
                   violation_history, decision, returned>>

\* Step 4: the Decision is built from the simulation result and handed to
\* request_approval; the summary is printed and True returned
WfApproval ==
    /\ wpc = "tools_checked"
    /\ decision' = [total_actions |-> Len(actions),
                    financial_impact |-> request.estimated_cost,
                    risk_score |-> RatSub(One, result.success_rate)]
    /\ invoked' = Append(invoked, "request_approval")
    /\ returned' = TRUE
    /\ wpc' = "returned"
    /\ UNCHANGED <<args, agents, simulator, request, plan, is_valid, violations,
                   violation_history>>

NextWorkflow ==
    \/ WfValidate
    \/ WfReject
    \/ WfSimulate
    \/ Call
    \/ MCBegin
    \/ MCSkip
    \/ MCFail
    \/ MCSucceed
    \/ MCEnd
    \/ Analyze
    \/ WfTools
    \/ WfApproval

SpecWorkflow == InitWorkflow /\ [][NextWorkflow]_vars

-----------------------------------------------------------------------------
(* validate_plan on its own: an agent holding any short list of            *)
(* constraints validates a plan                                            *)

MaxConstraints == 3

Severities == {"blocking", "warning", "info"}

\* The four kinds of constraint of _setup_constraints, each declared with any
\* severity; the validator of a kind is the one _setup_constraints gives it
ConstraintKinds ==
    {[SetupConstraints[j] EXCEPT !.severity = s] :
        j \in 1..Len(SetupConstraints), s \in Severities}

\* Plans at and over the time limit, within the budget, whose permissions and
\* domains are allowed, not allowed, or None
ValidatePlans ==
    [estimated_duration : {4320, 4321},
     estimated_cost : {250000},
     required_permissions : {PyList({"read_data"}), PyList({"admin_access"}), PyNone},
     regulatory_domains : {PyList({"general"}), PyList({"crypto"}), PyNone}]

InitValidate ==
    /\ actions = <<>>
    /\ monte_carlo = FALSE
    /\ num_simulations = 0
    /\ risk_tolerance \in RiskTolerances
    /\ pc = "idle"
    /\ i = 0
    /\ sorted_actions = <<>>
    /\ k = 0
    /\ executed_actions = <<>>
    /\ total_cost = 0
    /\ total_duration = 0
    /\ second_order_effects = <<>>
    /\ paths = <<>>
    /\ result = None
    /\ simulation_history = <<>>
    /\ wpc = "validate"
    /\ request = None
    /\ plan \in ValidatePlans
    /\ is_valid = None
    /\ violations = <<>>
    /\ violation_history = <<>>
    /\ invoked = <<>>
    /\ decision = None
    /\ returned = None
    /\ constraints \in UNION {[1..n -> ConstraintKinds] : n \in 0..MaxConstraints}
    /\ decisions = <<>>
    /\ approval_history = <<>>
    /\ call_outcome = None

\* validate_plan(plan) runs and returns (is_valid, violations)
Validate ==
    /\ wpc = "validate"
    /\ LET v == validate_plan(constraints, plan)
       IN  /\ is_valid' = v.is_valid
           /\ violations' = v.violations
           /\ violation_history' = violation_history \o v.recorded
    /\ wpc' = "validate_returned"
    /\ UNCHANGED <<args, simulator, request, plan, invoked, decision, returned,
                   constraints, decisions, approval_history, call_outcome>>

NextValidate == Validate

SpecValidate == InitValidate /\ [][NextValidate]_vars

-----------------------------------------------------------------------------
(* HumanInLoopAgent (src/human_in_loop_agent.py): request_approval and     *)
(* record_approval on the agent the example of the module sets up          *)

\* The approvers the example registers, in registration order;
\* availability_hours keeps its default, 9 to 16
ExampleApprovers ==
    <<[email |-> "alice@company.com",
       expertise_areas |-> {"operational", "financial"},
       approval_authority |-> [operational |-> 50000, financial |-> 25000],
       availability_hours |-> 9..16],
      [email |-> "bob@company.com",
       expertise_areas |-> {"strategic", "operational"},
       approval_authority |-> [strategic |-> 100000, operational |-> 75000],
       availability_hours |-> 9..16]>>

\* approver.approval_authority.get(decision_type, 0)
Authority(approver, decision_type) ==
    IF decision_type \in DOMAIN approver.approval_authority
    THEN approver.approval_authority[decision_type]
    ELSE 0

low_risk_auto_approve(d) ==
    /\ d.financial_impact < 1000
    /\ RatLT(d.risk_score, Rat(3, 10))
    /\ d.urgency # "critical"

routine_operational_auto_approve(d) ==
    /\ d.decision_type = "operational"
    /\ d.financial_impact < 5000
    /\ RatLT(d.risk_score, Rat(1, 2))

high_value_escalation(d) ==
    IF d.financial_impact > 100000 THEN "ceo@company.com" ELSE None

high_risk_escalation(d) ==
    IF RatLT(Rat(8, 10), d.risk_score) THEN "risk-manager@company.com" ELSE None

\* _can_auto_approve over the two rules the example adds
can_auto_approve(d) ==
    low_risk_auto_approve(d) \/ routine_operational_auto_approve(d)

\* _check_escalation over the two rules the example adds: the first rule that
\* names somebody decides
check_escalation(d) ==
    IF high_value_escalation(d) # None
    THEN high_value_escalation(d)
    ELSE high_risk_escalation(d)

RECURSIVE SumResponse(_)
SumResponse(hs) ==
    IF hs = <<>> THEN 0 ELSE hs[1].response_time + SumResponse(Tail(hs))

\* _get_historical_performance_score; response times are whole hours
get_historical_performance_score(history, email, decision_type) ==
    LET relevant == SelectSeq(history,
                              LAMBDA h : /\ h.approver = email
                                         /\ h.decision_type = decision_type)
        n == Len(relevant)
    IN  IF n = 0
        THEN Zero
        ELSE LET avg_response == Rat(SumResponse(relevant), n)
                 approval_rate ==
                     Rat(Len(SelectSeq(relevant, LAMBDA h : h.status = "approved")), n)
                 late == RatSub(RatOfInt(5), avg_response)
                 time_score == IF RatLT(late, Zero) THEN Zero ELSE late
                 approval_score ==
                     IF /\ RatLT(Rat(3, 10), approval_rate)
                        /\ RatLT(approval_rate, Rat(9, 10))
                     THEN 2 ELSE 0
             IN  RatAdd(time_score, RatOfInt(approval_score))

\* _select_approvers: the candidates with their scores, sorted, and the best
\* one (CRITICAL) or the best two of them; hour is datetime.now().hour
select_approvers(approvers, history, d, hour) ==
    LET eligible ==
            SelectSeq(approvers,
                      LAMBDA a : /\ d.decision_type \in a.expertise_areas
                                 /\ d.financial_impact <= Authority(a, d.decision_type))
        candidates ==
            [j \in 1..Len(eligible) |->
                <<RatAdd(RatOfInt((IF hour \in eligible[j].availability_hours
                                   THEN 10 ELSE 0) + 5),
                         get_historical_performance_score(history, eligible[j].email,
                                                          d.decision_type)),
                  eligible[j]>>]
        sorted == SortDescending(candidates)
        top == IF d.urgency = "critical" THEN 1 ELSE 2
    IN  [j \in 1..(IF Len(sorted) < top THEN Len(sorted) ELSE top) |-> sorted[j][2]]

\* decision.approvals with one more key set, as a dict assignment does
SetApproval(approvals, email, status) ==
    [e \in DOMAIN approvals \cup {email} |->
        IF e = email THEN status ELSE approvals[e]]

\* The Decision as request_approval leaves it
RequestedDecision(approvers, history, d, hour) ==
    IF can_auto_approve(d)
    THEN [d EXCEPT !.auto_approved = TRUE, !.final_status = "auto_approved"]
    ELSE LET selected == select_approvers(approvers, history, d, hour)
             emails == [j \in 1..Len(selected) |-> selected[j].email]
             pending == [e \in SeqToSet(emails) |-> "pending"]
             escalated_to == check_escalation(d)
         IN  IF escalated_to # None
             THEN [d EXCEPT !.required_approvers = Append(emails, escalated_to),
                            !.approvals = SetApproval(pending, escalated_to, "pending")]
             ELSE [d EXCEPT !.required_approvers = emails,
                            !.approvals = pending]

\* self.decisions after request_approval(decision)
request_approval(decs, approvers, history, d, hour) ==
    [id \in DOMAIN decs \cup {d.id} |->
        IF id = d.id THEN RequestedDecision(approvers, history, d, hour) ELSE decs[id]]

\* The status as it would be if one approval were enough
update_decision_status_any(approvals) ==
    IF \E e \in DOMAIN approvals : approvals[e] = "approved"
    THEN "approved"
    ELSE IF \E e \in DOMAIN approvals : approvals[e] = "rejected"
    THEN "rejected"
    ELSE IF \A e \in DOMAIN approvals : approvals[e] # "pending"
    THEN "escalated"
    ELSE "pending"

\* _update_decision_status: the final status for the approvals recorded
update_decision_status(approvals) ==
    IF \A e \in DOMAIN approvals : approvals[e] = "approved"
    THEN "approved"
    ELSE IF \E e \in DOMAIN approvals : approvals[e] = "rejected"
    THEN "rejected"
    ELSE IF \A e \in DOMAIN approvals : approvals[e] # "pending"
    THEN "escalated"
    ELSE "pending"

\* record_approval: the two ValueErrors come before any assignment; otherwise
\* the approval is set, the history entry appended and the status updated
record_approval(decs, history, decision_id, approver_email, status, response_time) ==
    IF decision_id \notin DOMAIN decs
    THEN [decisions |-> decs, approval_history |-> history, raised |-> TRUE]
    ELSE IF approver_email \notin DOMAIN decs[decision_id].approvals
    THEN [decisions |-> decs, approval_history |-> history, raised |-> TRUE]
    ELSE LET approvals == SetApproval(decs[decision_id].approvals, approver_email,
                                      status)
         IN  [decisions |->
                 [decs EXCEPT ![decision_id].approvals = approvals,
                              ![decision_id].final_status =
                                  update_decision_status(approvals)],
              approval_history |->
                 Append(history, [decision_id |-> decision_id,
                                  decision_type |-> decs[decision_id].decision_type,
                                  approver |-> approver_email,
                                  status |-> status,
                                  response_time |-> response_time]),
              raised |-> FALSE]

MaxRecords == 2

DecisionIds == {"DEC-001", "DEC-002"}

\* The statuses a record_approval call is given
RecordStatuses == {"pending", "approved", "rejected", "escalated"}

\* Decisions as the caller constructs them: the approval fields keep their
\* defaults
NewDecisions ==
    [id : DecisionIds,
     decision_type : {"operational", "financial"},
     urgency : {"medium", "critical"},
     financial_impact : {500, 35000, 120000},
     risk_score : {Rat(1, 5)},
     required_approvers : {<<>>},
     approvals : {<<>>},
     final_status : {"pending"},
     auto_approved : {FALSE}]

\* The hours at which request_approval may run, outside and inside the
\* approvers' availability, and the hours an approver takes to answer
RequestHours == {8, 12}
ResponseHours == {1}

\* The approvers a record_approval call may name: registered, named by an
\* escalation rule, or unknown
RecordEmails ==
    {"alice@company.com", "bob@company.com", "ceo@company.com",
     "mallory@company.com"}

InitApproval ==
    /\ actions = <<>>
    /\ monte_carlo = FALSE
    /\ num_simulations = 0
    /\ risk_tolerance \in RiskTolerances
    /\ pc = "idle"
    /\ i = 0
    /\ sorted_actions = <<>>
    /\ k = 0
    /\ executed_actions = <<>>
    /\ total_cost = 0
    /\ total_duration = 0
    /\ second_order_effects = <<>>
    /\ paths = <<>>
    /\ result = None
    /\ simulation_history = <<>>
    /\ wpc = "idle"
    /\ request = None
    /\ plan = None
    /\ is_valid = None
    /\ violations = <<>>
    /\ violation_history = <<>>
    /\ invoked = <<>>
    /\ decision = None
    /\ returned = None
    /\ constraints = <<>>
    /\ decisions = <<>>
    /\ approval_history = <<>>
    /\ call_outcome = None

\* request_approval(decision) on a decision with an id not used before
RequestApproval ==
    /\ \E d \in NewDecisions, hour \in RequestHours :
          /\ d.id \notin DOMAIN decisions
          /\ decisions' = request_approval(decisions, ExampleApprovers,
                                           approval_history, d, hour)
          /\ call_outcome' = "returned"
    /\ UNCHANGED <<args, simulator, wpc, request, plan, is_valid, violations,
                   violation_history, invoked, decision, returned, constraints,
                   approval_history>>

\* record_approval(decision_id, approver_email, status), answered after
\* response_time hours; at most MaxRecords approvals are recorded
RecordApproval ==
    /\ \E id \in DecisionIds, email \in RecordEmails, status \in RecordStatuses,
          response_time \in ResponseHours :
          LET r == record_approval(decisions, approval_history, id, email, status,
                                   response_time)
          IN  /\ Len(r.approval_history) <= MaxRecords
              /\ decisions' = r.decisions
              /\ approval_history' = r.approval_history
              /\ call_outcome' = IF r.raised THEN "ValueError" ELSE "returned"
    /\ UNCHANGED <<args, simulator, wpc, request, plan, is_valid, violations,
                   violation_history, invoked, decision, returned, constraints>>

NextApproval ==
    \/ RequestApproval
    \/ RecordApproval

SpecApproval == InitApproval /\ [][NextApproval]_vars

-----------------------------------------------------------------------------
(* Vocabulary of the properties                                            *)

UniqueNames(acts) ==
    \A p, q \in 1..Len(acts) : acts[p].name = acts[q].name => p = q

DepsPresent(acts) == \A p \in 1..Len(acts) : acts[p].dependencies \subseteq NamesOf(acts)

\* The names reached from the names in S by following dependencies, in at
\* most n steps
RECURSIVE Ancestors(_, _, _)
Ancestors(acts, S, n) ==
    IF n = 0
    THEN {}
    ELSE LET d == UNION {acts[p].dependencies :
                            p \in {q \in 1..Len(acts) : acts[q].name \in S}}
         IN  d \cup Ancestors(acts, d, n - 1)

Acyclic(acts) ==
    \A p \in 1..Len(acts) : acts[p].name \notin Ancestors(acts, {acts[p].name}, Len(acts))

\* The positions of lst that hold x
Positions(lst, x) == {p \in 1..Len(lst) : lst[p] = x}

\* Every element of lst has all its dependencies among the names of the
\* elements before it
DependenciesBefore(lst) ==
    \A p \in 1..Len(lst) : lst[p].dependencies \subseteq NamesOf(SubSeq(lst, 1, p - 1))

NoDuplicates(lst) == \A p, q \in 1..Len(lst) : lst[p] = lst[q] => p = q

PathsSoFar == SeqToSet(paths)

-----------------------------------------------------------------------------
(* C1: for uniquely named actions whose dependency graph is acyclic and    *)
(* whose dependency names all belong to the plan, _topological_sort        *)
(* returns a sequence that holds every action, each at a later position    *)
(* than every action named in its dependency list.                         *)
C1_OrderingCorrect ==
    (/\ pc = "resolved"
     /\ UniqueNames(actions)
     /\ DepsPresent(actions)
     /\ Acyclic(actions))
    => /\ \A j \in 1..Len(actions) : Positions(sorted_actions, actions[j]) # {}
       /\ DependenciesBefore(sorted_actions)

\* An acyclic three-action plan whose first action depends on the other two
\* and whose second depends on the third: the output reverses the input.
C1_Witness ==
    /\ pc = "resolved"
    /\ Len(actions) = 3
    /\ Acyclic(actions)
    /\ DepsPresent(actions)
    /\ actions[1].dependencies = {"b", "c"}
    /\ actions[2].dependencies = {"c"}
    /\ sorted_actions = <<actions[3], actions[2], actions[1]>>

(* C2: for every action set with a dependency cycle, the output of         *)
(* _topological_sort holds every input action exactly once: it is as long  *)
(* as the input and no action is repeated or missing.                      *)
C2_CycleOutputExactlyOnce ==
    (/\ pc = "resolved"
     /\ UniqueNames(actions)
     /\ ~Acyclic(actions))
    => /\ Len(sorted_actions) = Len(actions)
       /\ \A j \in 1..Len(actions) :
             Cardinality(Positions(sorted_actions, actions[j])) = 1

\* A ScenarioResult that says its ordering was degraded
ReportsUnresolvedDependency(r) ==
    /\ "unresolved_dependency" \in DOMAIN r
    /\ r.unresolved_dependency = TRUE

(* C3: whenever the resolver reaches an iteration in which actions remain  *)
(* but none is ready, the ScenarioResult returned by simulate_scenario     *)
(* carries an UnresolvedDependency indication.                             *)
C3_DegradedOrderingReported ==
    (pc = "done" /\ NoneReadyReached(actions)) => ReportsUnresolvedDependency(result)

(* C4: in every path produced, in either mode, actions_taken holds only    *)
(* actions of the input, none twice, and total_cost and total_duration are *)
(* the sums of cost and duration over the actions in actions_taken.        *)
C4_PathSubsetLaw ==
    \A path \in PathsSoFar :
        /\ SeqToSet(path.actions_taken) \subseteq SeqToSet(actions)
        /\ NoDuplicates(path.actions_taken)
        /\ path.total_cost = SumCost(path.actions_taken)
        /\ path.total_duration = SumDuration(path.actions_taken)

\* The ranges the data model gives to probabilities and impact magnitudes
InputsInRange ==
    \A j \in 1..Len(actions) :
        /\ InUnit(actions[j].success_probability)
        /\ \A h \in 1..Len(actions[j].side_effects) :
              LET fn == actions[j].side_effects[h]
              IN  /\ InUnit(fn.probability)
                  /\ RatLE(Rat(-1, 1), fn.impact_magnitude)
                  /\ RatLE(fn.impact_magnitude, One)

(* C5: given success probabilities in [0,1], effect probabilities in [0,1] *)
(* and impact magnitudes in [-1,1], every path's probability and           *)
(* risk_score lie in [0,1], whatever the costs.                            *)
C5_ProbabilityBound ==
    InputsInRange
    => \A path \in PathsSoFar : InUnit(path.probability) /\ InUnit(path.risk_score)

(* C6: simulate_scenario on an empty action list, in Monte Carlo mode with *)
(* a positive number of samples and risk tolerance 0.5, returns a result   *)
(* with success_rate 0, an empty path list and no recommended path.        *)
C6_EmptyInputResult ==
    (/\ pc = "done"
     /\ actions = <<>>
     /\ monte_carlo
     /\ num_simulations > 0
     /\ risk_tolerance = Rat(1, 2))
    => /\ result.success_rate = Zero
       /\ result.paths = <<>>
       /\ result.recommended_path = None

(* C7: in Monte Carlo mode every action in the executed list has all the   *)
(* names of its dependency list among the names of the actions that were   *)
(* put in the list before it, at every moment of the loop and in every     *)
(* path returned: an action whose dependency failed its draw, was skipped  *)
(* or is not in the plan is never executed.                                *)
C7_MonteCarloDependenciesMet ==
    monte_carlo
    => /\ DependenciesBefore(executed_actions)
       /\ \A path \in PathsSoFar : DependenciesBefore(path.actions_taken)

\* A Monte Carlo path in which an action with a dependency was executed,
\* from a plan that also holds an action the sampler had to refuse.
C7_Witness ==
    /\ monte_carlo
    /\ \E path \in PathsSoFar :
          /\ \E p \in 1..Len(path.actions_taken) :
                path.actions_taken[p].dependencies # {}
    /\ pc = "mc_loop"
    /\ k <= Len(sorted_actions)
    /\ ~DependenciesMet(sorted_actions[k], executed_actions)

(* C8: no path, in either mode, holds an executed action one of whose      *)
(* dependencies is not among the actions executed earlier in that path.    *)
C8_NoUnmetDependencyExecuted ==
    \A path \in PathsSoFar :
        \A p \in 1..Len(path.actions_taken) :
            \A d \in path.actions_taken[p].dependencies :
                \E q \in 1..(p - 1) : path.actions_taken[q].name = d

\* The synthetic effect of lines 259-265, as the effect of one action
IsBudgetPressureOf(e, action) ==
    /\ e.source_action = action.name
    /\ e.effect_description = "High cost reduces available budget"
    /\ e.probability = Rat(8, 10)
    /\ e.impact_magnitude = Rat(-3, 10)

HighCostCovered(executed, effects) ==
    \A p \in 1..Len(executed) :
        executed[p].cost > 10000
        => \E h \in 1..Len(effects) : IsBudgetPressureOf(effects[h], executed[p])

(* C9: each executed action whose cost exceeds 10000 has, in the effect    *)
(* list of its path, the budget-pressure effect sourced from it, with      *)
(* probability 0.8 and impact magnitude -0.3.                              *)
C9_HighCostCascadeEveryPath ==
    \A path \in PathsSoFar :
        HighCostCovered(path.actions_taken, path.second_order_effects)

(* C9, amended: in every Monte Carlo path, and in the sampler's lists      *)
(* while a path is being built, each executed action whose cost exceeds    *)
(* 10000 has the budget-pressure effect sourced from it in the effect list.*)
C9_HighCostCascadeMonteCarlo ==
    monte_carlo
    => /\ HighCostCovered(executed_actions, second_order_effects)
       /\ \A path \in PathsSoFar :
             HighCostCovered(path.actions_taken, path.second_order_effects)

\* A Monte Carlo path whose last executed action cost more than 10000 and
\* was the last of the plan still to execute
C9_Witness ==
    /\ monte_carlo
    /\ \E path \in PathsSoFar :
          /\ Len(path.actions_taken) = Len(actions)
          /\ Len(actions) = 2
          /\ path.actions_taken[2].cost > 10000

\* The success rate of the scenario a deterministic path is named after
RateOf(path_id) ==
    ScenarioRates[CHOOSE n \in 1..Len(ScenarioLabels) : <<ScenarioLabels[n]>> = path_id]

AppliedProduct(path) ==
    IF monte_carlo
    THEN ProbProduct(path.actions_taken)
    ELSE RatPow(RateOf(path.path_id), Len(path.actions_taken))

(* C10: every path's probability is the product of the success             *)
(* probabilities applied to its executed actions (each action's own in     *)
(* Monte Carlo mode, the scenario's rate in deterministic mode), and is    *)
(* 0 whenever no action executed.                                          *)
C10_PathProbabilityLaw ==
    \A path \in PathsSoFar :
        path.probability =
            IF path.actions_taken = <<>> THEN Zero ELSE AppliedProduct(path)

\* The number of paths of ps classified SUCCESS or PARTIAL_SUCCESS
CountSuccessful(ps) ==
    Cardinality({j \in 1..Len(ps) :
                    ps[j].outcome_type = "SUCCESS" \/ ps[j].outcome_type = "PARTIAL_SUCCESS"})

(* C11: for every non-empty path list the result's success_rate is exactly *)
(* the number of paths classified SUCCESS or PARTIAL_SUCCESS divided by    *)
(* the number of paths.                                                    *)
C11_SuccessRateExact ==
    (pc = "done" /\ paths # <<>>)
    => /\ result.paths = paths
       /\ result.success_rate[1] * Len(paths) = CountSuccessful(paths) * result.success_rate[2]
       /\ result.success_rate[2] > 0

\* A result over one SUCCESS, one PARTIAL_SUCCESS and one other path: rate 2/3
C11_Witness ==
    /\ pc = "done"
    /\ Len(paths) = 3
    /\ \E p, q, r \in 1..3 :
          /\ paths[p].outcome_type = "SUCCESS"
          /\ paths[q].outcome_type = "PARTIAL_SUCCESS"
          /\ paths[r].outcome_type \in {"FAILURE", "CATASTROPHIC"}
    /\ result.success_rate = Rat(2, 3)

(* C12: in deterministic mode, whatever num_simulations is, the result     *)
(* holds exactly three paths identified "optimistic", "realistic" and      *)
(* "pessimistic" in that order; the optimistic path executes every action  *)
(* of the resolver's ordering, so no other path executes more actions.     *)
C12_DeterministicThreePaths ==
    (~monte_carlo /\ pc = "done")
    => /\ Len(result.paths) = 3
       /\ result.paths[1].path_id = <<"optimistic">>
       /\ result.paths[2].path_id = <<"realistic">>
       /\ result.paths[3].path_id = <<"pessimistic">>
       /\ result.paths[1].actions_taken = topological_sort(actions)
       /\ \A j \in 1..3 :
             Len(result.paths[j].actions_taken) <= Len(result.paths[1].actions_taken)

\* A deterministic run asked for no samples at all, in which the realistic
\* and the pessimistic path both executed fewer actions than the optimistic
C12_Witness ==
    /\ ~monte_carlo
    /\ pc = "done"
    /\ num_simulations = 0
    /\ Len(result.paths[1].actions_taken) = 2
    /\ Len(result.paths[2].actions_taken) = 1
    /\ Len(result.paths[3].actions_taken) = 0

\* A plan of one action with success probability 1.0, no dependencies, cost 500
IsSingleCertainAction(acts) ==
    /\ Len(acts) = 1
    /\ acts[1].success_probability = One
    /\ acts[1].dependencies = {}
    /\ acts[1].cost = 500

(* C13: for a plan of a single action with success probability 1.0, no     *)
(* dependencies and cost 500, Monte Carlo simulation yields, for every     *)
(* sequence of draws, num_simulations paths that each execute the action   *)
(* with total_cost 500, so success_rate is 1.0 and average_cost is 500     *)
(* (num_simulations from 1 to MaxSamples standing for 50).                 *)
C13_SingleCertainAction ==
    (monte_carlo /\ IsSingleCertainAction(actions))
    => /\ \A path \in PathsSoFar :
             path.actions_taken = actions /\ path.total_cost = 500
       /\ (pc = "mc_loop" /\ k > 1) => executed_actions = actions
       /\ (pc = "done" /\ num_simulations > 0)
          => /\ Len(result.paths) = num_simulations
             /\ result.success_rate = One
             /\ result.average_cost = RatOfInt(500)

C13_Witness ==
    /\ monte_carlo
    /\ IsSingleCertainAction(actions)
    /\ pc = "done"
    /\ num_simulations = MaxSamples
    /\ Len(result.paths) = MaxSamples

\* value x probability x (1 - risk_score x (1 - risk_tolerance))
StatedScore(path) ==
    RatMul(RatMul(RatOfInt(calculate_path_value(path)), path.probability),
           RatSub(One, RatMul(path.risk_score, RatSub(One, risk_tolerance))))

(* C15: for every non-empty path list the recommended path is an element   *)
(* of the result's own path list whose score value x probability x         *)
(* (1 - risk_score x (1 - risk_tolerance)) is maximal over the list, and   *)
(* every path before it in the list has a strictly smaller score.          *)
C15_RecommendedIsFirstMaximal ==
    (pc = "done" /\ paths # <<>>)
    => /\ result.paths = paths
       /\ result.recommended_path \in 1..Len(result.paths)
       /\ \A h \in 1..Len(result.paths) :
             RatLE(StatedScore(result.paths[h]),
                   StatedScore(result.paths[result.recommended_path]))
       /\ \A h \in 1..(result.recommended_path - 1) :
             RatLT(StatedScore(result.paths[h]),
                   StatedScore(result.paths[result.recommended_path]))

\* Two samples share the maximal score, a positive one, and the earlier of
\* them is the recommended path
C15_Witness ==
    /\ pc = "done"
    /\ Len(result.paths) = 2
    /\ StatedScore(result.paths[1]) = StatedScore(result.paths[2])
    /\ RatLT(Zero, StatedScore(result.paths[1]))
    /\ result.recommended_path = 1

(* C16: when the path list handed to the aggregator is empty (Monte Carlo  *)
(* mode with num_simulations = 0), simulate_scenario returns a result with *)
(* expected value, risk-adjusted value, success rate, average cost and     *)
(* average duration all zero and no recommended path.                      *)
C16_EmptyPathListResult ==
    /\ (pc = "mc_for" /\ num_simulations = 0) => (paths = <<>> /\ PathsComplete)
    /\ (pc = "done" /\ paths = <<>>)
       => /\ result.paths = <<>>
          /\ result.expected_value = Zero
          /\ result.risk_adjusted_value = Zero
          /\ result.success_rate = Zero
          /\ result.average_cost = Zero
          /\ result.average_duration = Zero
          /\ result.recommended_path = None
          /\ simulation_history = <<result>>

\* A plan of two actions simulated with no sample at all
C16_Witness ==
    /\ pc = "done"
    /\ monte_carlo
    /\ num_simulations = 0
    /\ Len(actions) = 2
    /\ result.paths = <<>>

\* The effects the callables of an action contribute: one per callable that
\* returns an effect, in the order of the callables
ReturnedEffects(action) ==
    LET fns == SelectSeq(action.side_effects, LAMBDA fn : fn.kind = "effect")
    IN  [h \in 1..Len(fns) |->
            [source_action |-> action.name,
             effect_description |-> "custom",
             probability |-> fns[h].probability,
             impact_magnitude |-> fns[h].impact_magnitude,
             affected_actions |-> <<>>]]

HasRaisingGenerator(action) ==
    \E h \in 1..Len(action.side_effects) : action.side_effects[h].kind = "raise"

\* The effects of lst that are sourced from the action
EffectsFrom(lst, action) == SelectSeq(lst, LAMBDA e : e.source_action = action.name)

\* What the executed action at position p left in a list of effects and in
\* the totals, when one of its callables raises
RaisingGeneratorSkipped(executed, effects, cost, duration) ==
    /\ cost = SumCost(executed)
    /\ duration = SumDuration(executed)
    /\ \A p \in 1..Len(executed) :
          HasRaisingGenerator(executed[p])
          => LET from == EffectsFrom(effects, executed[p])
                 own == ReturnedEffects(executed[p])
             IN  /\ SubSeq(from, 1, Len(own)) = own
                 /\ Len(from) = Len(own) + (IF executed[p].cost > 10000 THEN 1 ELSE 0)
                 /\ executed[p].cost > 10000
                    => IsBudgetPressureOf(from[Len(from)], executed[p])

(* C17: when an effect generator of an executed action raises, that        *)
(* generator contributes no effect, the other generators of the action     *)
(* contribute theirs, the high-cost rule is still applied, the action      *)
(* stays executed with its cost and duration counted, and the path is      *)
(* completed and aggregated like any other.                                *)
C17_RaisingGeneratorSkipped ==
    monte_carlo
    => /\ RaisingGeneratorSkipped(executed_actions, second_order_effects,
                                  total_cost, total_duration)
       /\ \A path \in PathsSoFar :
             RaisingGeneratorSkipped(path.actions_taken, path.second_order_effects,
                                     path.total_cost, path.total_duration)
       /\ pc = "done" => (result.paths = paths /\ Len(paths) = num_simulations)

\* A completed call one of whose paths executed an action with a raising
\* generator followed by one that returns an effect
C17_Witness ==
    /\ monte_carlo
    /\ pc = "done"
    /\ \E j \in 1..Len(result.paths) :
          \E p \in 1..Len(result.paths[j].actions_taken) :
             LET action == result.paths[j].actions_taken[p]
             IN  /\ HasRaisingGenerator(action)
                 /\ Len(EffectsFrom(result.paths[j].second_order_effects, action)) = 2

(* C19: in Monte Carlo mode the paths are generated one per sampler        *)
(* invocation and identified mc_0, mc_1, ... in generation order, never    *)
(* more than num_simulations of them, and the result, once there is one,   *)
(* was computed from the complete list of exactly num_simulations paths.   *)
C19_AggregateOverAllSamples ==
    monte_carlo
    => /\ Len(paths) = i
       /\ i <= num_simulations
       /\ \A j \in 1..Len(paths) : paths[j].path_id = <<"mc", j - 1>>
       /\ pc # "done" => (result = None /\ simulation_history = <<>>)
       /\ pc = "done"
          => /\ Len(paths) = num_simulations
             /\ result = analyze_simulation_results("x", paths, risk_tolerance)
             /\ result.paths = paths

C19_Witness ==
    /\ monte_carlo
    /\ pc = "done"
    /\ num_simulations = MaxSamples
    /\ Len(result.paths) = MaxSamples
    /\ result.paths[MaxSamples].path_id = <<"mc", MaxSamples - 1>>
    /\ result.paths[1] # result.paths[MaxSamples]

\* |impact magnitude| x probability for an effect of negative impact, 0 for
\* any other
NegativeImpactTerm(e) ==
    IF e.impact_magnitude[1] < 0
    THEN RatMul(<<-e.impact_magnitude[1], e.impact_magnitude[2]>>, e.probability)
    ELSE Zero

StatedRiskScore(effects, cost) ==
    IF Len(effects) = 0
    THEN Zero
    ELSE LET S == SumRat([h \in 1..Len(effects) |-> NegativeImpactTerm(effects[h])])
             scaled == RatMul(S, RatAdd(One, Rat(cost, 100000)))
         IN  IF RatLE(One, scaled) THEN One ELSE scaled

(* C20: the risk score of a Monte Carlo path is 0 if the path has no       *)
(* second-order effects; otherwise it is min(1.0, S x (1 + total_cost /    *)
(* 100000)), S being the sum over the effects of negative impact of        *)
(* |impact magnitude| x probability.                                       *)
C20_RiskScoreLaw ==
    monte_carlo
    => \A path \in PathsSoFar :
          path.risk_score = StatedRiskScore(path.second_order_effects, path.total_cost)

\* A path with an effect of positive impact and one of negative impact, whose
\* score is neither 0 nor the cap
C20_Witness ==
    /\ monte_carlo
    /\ \E path \in PathsSoFar :
          /\ \E h \in 1..Len(path.second_order_effects) :
                RatLT(Zero, path.second_order_effects[h].impact_magnitude)
          /\ \E h \in 1..Len(path.second_order_effects) :
                RatLT(path.second_order_effects[h].impact_magnitude, Zero)
          /\ RatLT(Zero, path.risk_score)
          /\ RatLT(path.risk_score, One)

\* The outcome categories from worst to best
OutcomeRank(outcome) ==
    CASE outcome = "CATASTROPHIC" -> 0
      [] outcome = "FAILURE" -> 1
      [] outcome = "PARTIAL_SUCCESS" -> 2
      [] outcome = "SUCCESS" -> 3

\* The category of the completion ratio e / c, which is 0 when c = 0
OutcomeOfRatio(e, c) ==
    IF c = 0 THEN "CATASTROPHIC"
    ELSE IF 10 * e >= 9 * c THEN "SUCCESS"
    ELSE IF 10 * e >= 6 * c THEN "PARTIAL_SUCCESS"
    ELSE IF 10 * e >= 3 * c THEN "FAILURE"
    ELSE "CATASTROPHIC"

(* C14: the outcome of a path is decided by the completion ratio           *)
(* r = |executed| / |candidates| (0 for no candidates): SUCCESS if         *)
(* r >= 0.9, else PARTIAL_SUCCESS if r >= 0.6, else FAILURE if r >= 0.3,   *)
(* else CATASTROPHIC; with the candidates fixed, executing fewer actions   *)
(* never gives a better category, and no candidates gives CATASTROPHIC.    *)
C14_OutcomeByCompletionRatio ==
    pc = "classified"
    => /\ result = OutcomeOfRatio(Len(executed_actions), Len(actions))
       /\ \A fewer \in 0..Len(executed_actions) :
             OutcomeRank(determine_outcome(SubSeq(executed_actions, 1, fewer), actions))
                <= OutcomeRank(result)
       /\ actions = <<>> => result = "CATASTROPHIC"

\* Nine of ten candidates executed: the ratio is exactly 0.9
C14_Witness ==
    /\ pc = "classified"
    /\ Len(actions) = 10
    /\ Len(executed_actions) = 9
    /\ result = "SUCCESS"

HasBlockingViolation(vs) == \E j \in 1..Len(vs) : vs[j].severity = "blocking"

(* C18: in the integrated workflow validate_plan is called before          *)
(* simulate_scenario, and once validate_plan has reported a BLOCKING       *)
(* violation simulate_scenario is never called: the simulator stays        *)
(* untouched, neither the tool report nor an approval is asked for, and    *)
(* the workflow returns False.                                             *)
C18_BlockedPlanNeverSimulated ==
    /\ invoked # <<>> => invoked[1] = "validate_plan"
    /\ pc # "idle" => (Len(invoked) >= 2 /\ invoked[2] = "simulate_scenario")
    /\ (wpc # "called" /\ HasBlockingViolation(violations))
       => /\ invoked = <<"validate_plan">>
          /\ pc = "idle"
          /\ paths = <<>>
          /\ simulation_history = <<>>
          /\ wpc \in {"validated", "returned"}
          /\ wpc = "returned" => returned = FALSE

\* A plan rejected for a BLOCKING violation although the last constraint
\* checked, the regulatory one, was satisfied
C18_Witness ==
    /\ wpc = "returned"
    /\ returned = FALSE
    /\ HasBlockingViolation(violations)
    /\ plan.regulatory_domains = PyList({"finance", "general"})
    /\ actions # <<>>
    /\ invoked = <<"validate_plan">>

\* 1 minus the success rate of the scenario at position j of the path list
StatedDeterministicRisk(j) ==
    CASE j = 1 -> Zero
      [] j = 2 -> Rat(2, 10)
      [] j = 3 -> Rat(5, 10)

(* C21: every deterministic-mode path has an empty second-order effect     *)
(* list and a risk score of 1 minus its scenario's success rate: 0 for     *)
(* optimistic, 0.2 for realistic, 0.5 for pessimistic, whatever the costs  *)
(* of the executed actions and whatever generators they carry.             *)
C21_DeterministicRisk ==
    ~monte_carlo
    => \A j \in 1..Len(paths) :
          /\ paths[j].second_order_effects = <<>>
          /\ paths[j].risk_score = StatedDeterministicRisk(j)

\* A pessimistic path that executed an action costing more than 10000 and
\* carrying effect generators
C21_Witness ==
    /\ ~monte_carlo
    /\ pc = "done"
    /\ \E p \in 1..Len(paths[3].actions_taken) :
          /\ paths[3].actions_taken[p].cost > 10000
          /\ paths[3].actions_taken[p].side_effects # <<>>
    /\ \E p \in 1..Len(paths[2].actions_taken) :
          paths[2].actions_taken[p].cost < 0

\* The fixed payoff of an outcome minus the path's total cost
StatedValue(path) ==
    (CASE path.outcome_type = "SUCCESS" -> 100000
       [] path.outcome_type = "PARTIAL_SUCCESS" -> 50000
       [] path.outcome_type = "FAILURE" -> -10000
       [] path.outcome_type = "CATASTROPHIC" -> -50000) - path.total_cost

(* C22: for every non-empty path list the result's expected_value is the   *)
(* sum over all paths of path value x path probability, the path value     *)
(* being the payoff of the outcome (SUCCESS 100000, PARTIAL_SUCCESS 50000, *)
(* FAILURE -10000, CATASTROPHIC -50000) minus the path's total_cost.       *)
C22_ExpectedValueLaw ==
    (pc = "done" /\ paths # <<>>)
    => result.expected_value =
          SumRat([j \in 1..Len(paths) |->
                    RatMul(RatOfInt(StatedValue(paths[j])), paths[j].probability)])

\* A result over paths of three different outcomes, with a non-zero cost
C22_Witness ==
    /\ pc = "done"
    /\ Len(paths) = 3
    /\ paths[1].outcome_type = "SUCCESS"
    /\ paths[2].outcome_type = "PARTIAL_SUCCESS"
    /\ paths[3].outcome_type = "FAILURE"
    /\ paths[3].total_cost > 0
    /\ result.expected_value # Zero

RECURSIVE IsSubsequence(_, _)
IsSubsequence(sub, lst) ==
    IF sub = <<>> THEN TRUE
    ELSE IF lst = <<>> THEN FALSE
    ELSE IF Head(sub) = Head(lst) THEN IsSubsequence(Tail(sub), Tail(lst))
    ELSE IsSubsequence(sub, Tail(lst))

(* C24: in every path, and in the sampler's executed list while a path is  *)
(* being built, the executed actions form a subsequence of the ordering    *)
(* _topological_sort returns for the same input.                           *)
C24_ResolverOrderKept ==
    /\ \A path \in PathsSoFar :
          IsSubsequence(path.actions_taken, topological_sort(actions))
    /\ pc = "mc_loop" => IsSubsequence(executed_actions, topological_sort(actions))

\* A path that executed both actions of a plan in the reverse of input order
C24_Witness ==
    /\ Len(actions) = 2
    /\ \E path \in PathsSoFar :
          path.actions_taken = <<actions[2], actions[1]>>

\* 1 - risk_score x (1 - risk_tolerance)
StatedAdjustment(path) ==
    RatSub(One, RatMul(path.risk_score, RatSub(One, risk_tolerance)))

(* C23: for every non-empty path list the result's risk_adjusted_value is  *)
(* the sum over all paths of path value x path probability x               *)
(* (1 - risk_score x (1 - risk_tolerance)); with risk_tolerance = 1 it     *)
(* equals expected_value, and with risk_tolerance and risk_score both in   *)
(* [0,1] the adjustment factor of a path lies in [0,1].                    *)
C23_RiskAdjustedValueLaw ==
    (pc = "aggregated" /\ paths # <<>>)
    => /\ result.risk_adjusted_value =
             SumRat([j \in 1..Len(paths) |->
                       RatMul(RatMul(RatOfInt(StatedValue(paths[j])), paths[j].probability),
                              StatedAdjustment(paths[j]))])
       /\ risk_tolerance = One => result.risk_adjusted_value = result.expected_value
       /\ \A j \in 1..Len(paths) :
             (InUnit(risk_tolerance) /\ InUnit(paths[j].risk_score))
             => InUnit(RiskAdjustment(paths[j], risk_tolerance))

\* A simulator of risk tolerance 1 aggregating two paths of non-zero risk
C23_Witness ==
    /\ pc = "aggregated"
    /\ Len(paths) = 2
    /\ risk_tolerance = One
    /\ paths[1].risk_score = Rat(1, 2)
    /\ paths[2].risk_score = Rat(1, 2)
    /\ paths[1].outcome_type # paths[2].outcome_type
    /\ result.risk_adjusted_value = result.expected_value
    /\ result.expected_value # Zero

\* The ordering as stated: ready actions are moved over in input order, and
\* when none is ready all the remaining ones are, which ends the sort
RECURSIVE StatedOrderLoop(_, _)
StatedOrderLoop(sorted, remaining) ==
    IF remaining = <<>>
    THEN sorted
    ELSE LET ready == SelectSeq(remaining,
                                LAMBDA a : a.dependencies \subseteq NamesOf(sorted))
         IN  IF ready = <<>>
             THEN sorted \o remaining
             ELSE StatedOrderLoop(sorted \o ready,
                                  SelectSeq(remaining,
                                            LAMBDA a : ~(a.dependencies \subseteq NamesOf(sorted))))

(* C25: when _topological_sort reaches an iteration in which actions       *)
(* remain but none is ready, its output is the prefix ordered so far       *)
(* followed by all the remaining actions in input order and nothing more;  *)
(* the actions ready in a normal iteration are likewise kept in input      *)
(* order.                                                                  *)
C25_FallbackKeepsInputOrder ==
    (pc = "resolved" /\ UniqueNames(actions))
    => sorted_actions = StatedOrderLoop(<<>>, actions)

IsBudgetPressure(e) == e.effect_description = "High cost reduces available budget"

\* What the claim says of the budget-pressure effects in a list of effects
\* that goes with a list of executed actions
AffectedActionsAsStated(executed, effects) ==
    /\ \A h \in 1..Len(effects) :
          IsBudgetPressure(effects[h])
          => \E p \in 1..Len(executed) :
                /\ executed[p].name = effects[h].source_action
                /\ executed[p].cost > 10000
                /\ SeqToSet(effects[h].affected_actions)
                      = NamesOf(actions) \ NamesOf(SubSeq(executed, 1, p))
                /\ \A x, y \in 1..Len(effects[h].affected_actions) :
                      effects[h].affected_actions[x] = effects[h].affected_actions[y]
                      => x = y
    /\ \A p \in 1..Len(executed) :
          executed[p].cost = 10000
          => ~\E h \in 1..Len(effects) :
                 /\ IsBudgetPressure(effects[h])
                 /\ effects[h].source_action = executed[p].name

(* C26: the budget-pressure effect of an executed action costing more than *)
(* 10000 lists as affected actions exactly the names of the plan's actions *)
(* that are not in the executed list at that moment, each name once (so    *)
(* never the source or an earlier executed action, and only names of the   *)
(* plan); an action costing exactly 10000 emits no such effect.            *)
C26_AffectedActionsExact ==
    /\ AffectedActionsAsStated(executed_actions, second_order_effects)
    /\ \A path \in PathsSoFar :
          AffectedActionsAsStated(path.actions_taken, path.second_order_effects)

\* C27: simulate_scenario, in either mode, and the resolver leave the caller's
\* list of actions as it was: no step changes the list, its order or a field
\* of an action, also when the resolver takes its fallback iteration.
C27_CallerActionsUnchanged == [][actions' = actions]_vars

C27_Witness ==
    /\ pc = "done"
    /\ Len(actions) = 2
    /\ NoneReadyReached(actions)
    /\ Len(paths) > 0

\* The step on which a call of simulate_scenario returns
CallReturns == pc # "done" /\ pc' = "done"

\* C28: a call of simulate_scenario that completes appends exactly one entry
\* to simulation_history, the ScenarioResult it returns, and no other step
\* changes the history: the earlier entries, their paths included, stay as
\* they were and in call order, so n completed calls leave n entries.
C28_HistoryAppendOnly ==
    /\ [][IF CallReturns
          THEN simulation_history' = Append(simulation_history, result')
          ELSE simulation_history' = simulation_history]_vars
    /\ [](pc = "done" => /\ Len(simulation_history) > 0
                         /\ simulation_history[Len(simulation_history)].paths
                               = result.paths)

C28_Witness ==
    /\ pc = "done"
    /\ Len(simulation_history) = 2
    /\ Len(simulation_history[1].paths) = 3
    /\ Len(simulation_history[2].paths) = 1

\* The positions, in order, of the constraints whose validator does not
\* return (True, message) on the plan
NotSatisfied(cs, p) ==
    SelectSeq([j \in 1..Len(cs) |-> j], LAMBDA j : ValidatorVerdict(cs[j], p) # "ok")

\* C30: validate_plan returns, whatever the validators do; it reports the
\* plan valid exactly when no returned violation is BLOCKING; every
\* constraint is evaluated, those after a validator that raised included,
\* and each one not satisfied yields one violation, in order: BLOCKING when
\* the validator raised, whatever the declared severity, and of the declared
\* severity when it returned False.
C30_ValidatePlanVerdict ==
    wpc = "validate_returned" =>
        LET bad == NotSatisfied(constraints, plan)
        IN  /\ is_valid \in BOOLEAN
            /\ is_valid <=> \A n \in 1..Len(violations) :
                                violations[n].severity # "blocking"
            /\ Len(violations) = Len(bad)
            /\ \A n \in 1..Len(bad) :
                  LET c == constraints[bad[n]]
                  IN  /\ violations[n].constraint = c.name
                      /\ ValidatorVerdict(c, plan) = "raise"
                            => violations[n].severity = "blocking"
                      /\ ValidatorVerdict(c, plan) = "violated"
                            => violations[n].severity = c.severity

C30_Witness ==
    /\ wpc = "validate_returned"
    /\ Len(constraints) = 3
    /\ ValidatorVerdict(constraints[1], plan) = "raise"
    /\ constraints[1].severity = "info"
    /\ ValidatorVerdict(constraints[2], plan) = "violated"
    /\ constraints[2].severity = "warning"
    /\ ValidatorVerdict(constraints[3], plan) = "ok"
    /\ ~is_valid
    /\ Len(violations) = 2
    /\ violations[1].severity = "blocking"

\* The final status the claim states for the approvals of a decision
StatedStatus(approvals) ==
    LET statuses == {approvals[e] : e \in DOMAIN approvals}
    IN  IF statuses \subseteq {"approved"} THEN "approved"
        ELSE IF "rejected" \in statuses THEN "rejected"
        ELSE IF "pending" \notin statuses THEN "escalated"
        ELSE "pending"

\* A decision handed to request_approval is auto-approved or not, and an
\* auto-approved one has no approver and keeps its status
AutoApprovedStays ==
    \A id \in DOMAIN decisions :
        decisions[id].auto_approved
            => /\ decisions[id].final_status = "auto_approved"
               /\ decisions[id].required_approvers = <<>>
               /\ DOMAIN decisions[id].approvals = {}

\* A record_approval call that raises changes no decision and no history; one
\* that returns named a known decision and one of its approvers, and appended
\* its entry to the history
RecordRaisesOrRecords ==
    Len(approval_history') > Len(approval_history) \/ call_outcome' = "ValueError"
        => IF call_outcome' = "ValueError"
           THEN decisions' = decisions /\ approval_history' = approval_history
           ELSE LET h == approval_history'[Len(approval_history')]
                IN  /\ approval_history' = Append(approval_history, h)
                    /\ h.decision_id \in DOMAIN decisions
                    /\ h.approver \in DOMAIN decisions[h.decision_id].approvals
                    /\ \A id \in DOMAIN decisions \ {h.decision_id} :
                          decisions'[id] = decisions[id]

\* C29 as stated: the final status of every decision that is not
\* auto-approved follows from the statuses of its assigned approvers
\* (APPROVED when all are APPROVED, else REJECTED when one is, else ESCALATED
\* when none is PENDING, else PENDING); a record_approval call that names an
\* unknown decision or an approver who is not assigned raises and changes
\* nothing; an auto-approved decision has no approver and stays AUTO_APPROVED.
C29_FinalStatusFollowsApprovals ==
    /\ [](\A id \in DOMAIN decisions :
            ~decisions[id].auto_approved
                => decisions[id].final_status = StatedStatus(decisions[id].approvals))
    /\ []AutoApprovedStays
    /\ [][RecordRaisesOrRecords]_vars

\* C29 amended: the rule of C29 for the decisions that have at least one
\* assigned approver; a decision that is not auto-approved and has no
\* assigned approver stays PENDING, every record_approval call on it raising.
C29_FinalStatusWithApprovers ==
    /\ [](\A id \in DOMAIN decisions :
            ~decisions[id].auto_approved
                => decisions[id].final_status =
                      IF DOMAIN decisions[id].approvals = {}
                      THEN "pending"
                      ELSE StatedStatus(decisions[id].approvals))
    /\ []AutoApprovedStays
    /\ [][RecordRaisesOrRecords]_vars

C29_Witness ==
    /\ DOMAIN decisions = DecisionIds
    /\ ~decisions["DEC-001"].auto_approved
    /\ DOMAIN decisions["DEC-001"].approvals = {}
    /\ decisions["DEC-001"].final_status = "pending"
    /\ Len(decisions["DEC-002"].required_approvers) = 2
    /\ decisions["DEC-002"].final_status = "escalated"
    /\ Len(approval_history) = 2
    /\ call_outcome = "ValueError"

=============================================================================
